---- MODULE Spec2Model ----
(***************************************************************************)
(* Model of cizzle-car-world-html/main.js: a vehicle on a bounded ground   *)
(* plane driven by latched keys or one tracked gamepad, followed by a      *)
(* chase camera, all stepped from the animation-frame callback.            *)
(*                                                                         *)
(* Numbers are fixed point.  Lengths, axis readings and resolved inputs    *)
(* are in thousandths (0.15 is 150, 0.6 is 600, 48 units is 48000).        *)
(* deltaTime is in milliseconds.  The vehicle only ever rotates about its  *)
(* vertical axis (rotateY), so its quaternion is represented by the yaw,   *)
(* counted in quarter turns (pi/2); the input sets below keep every        *)
(* rotation a whole number of quarter turns, where sine and cosine are     *)
(* exact.                                                                  *)
(***************************************************************************)
EXTENDS Integers, Sequences, FiniteSets, TLC

VARIABLES keys, gamepadIndex, gamepadState, car, camera,
          forwardInput, turnInput, frames, padEvent, polled, last,
          obstacles, create, lastDelta, loop, keyLog

vars == <<keys, gamepadIndex, gamepadState, car, camera,
          forwardInput, turnInput, frames, padEvent, polled, last,
          obstacles, create, lastDelta, loop, keyLog>>

\* obstacles and the position of createObstacles in its loops.
fieldVars == <<obstacles, create>>

(* ---------------- bounds and input alphabets ---------------- *)

\* Number of animation frames explored by Spec.
MaxFrames == 3

\* Number of animation frames explored by SpecDrive.
MaxDriveFrames == 2

\* Number of leading obstacles whose draws are varied in SpecObstacles; the
\* obstacles after them each see one accepted and one rejected draw.
MaxVariedObstacles == 2

\* clock.getDelta() results, in milliseconds: no time, one second, a stall.
DeltaTimes == {0, 1000, 20000}

\* clock.getDelta() of Spec, which studies input handling with the clock
\* standing still (two frames within one clock tick).
FrozenClock == {0}

\* Raw axis readings of a polled device, in thousandths: below the dead
\* zone, exactly at it, and beyond it in both directions.
AxisValues == {-500, 100, 150, 500}

\* gp.axes arrays of a polled device (left stick X, left stick Y).
PolledAxes == {<<ax, ay>> : ax \in AxisValues, ay \in AxisValues}

\* navigator.getGamepads()[gamepadIndex]: a missing entry or a device.
Polled == {[present |-> FALSE, axes |-> <<>>]}
            \cup {[present |-> TRUE, axes |-> a] : a \in PolledAxes}

\* The value standing for "getGamepads was not called" (the early return).
NotPolled == [present |-> FALSE, axes |-> <<>>]

\* event.gamepad.index of connect/disconnect events.
PadIndices == {0, 1}

\* event.gamepad.buttons.length of connect events.
ButtonCounts == {2}

\* event.key of keyboard events: mapped letters in both cases, the arrow
\* keys, and an unmapped key.
KeyNames == {"w", "W", "a", "s", "d",
             "ArrowUp", "ArrowLeft", "ArrowDown", "ArrowRight", "x"}

\* The smaller event alphabets of SpecDrive.
DriveKeyNames == {"w", "a", "s", "d"}
DrivePadIndices == {0}
DrivePolled == {[present |-> FALSE, axes |-> <<>>],
                [present |-> TRUE, axes |-> <<500, 500>>],
                [present |-> TRUE, axes |-> <<-500, -500>>]}

\* The devices of SpecAxes: none, and devices reporting 0, 1, 2, 4 and 5 axes
\* with readings on both sides of the dead zone.
AxesPolled == {[present |-> FALSE, axes |-> <<>>],
               [present |-> TRUE, axes |-> <<>>],
               [present |-> TRUE, axes |-> <<100>>],
               [present |-> TRUE, axes |-> <<-150>>],
               [present |-> TRUE, axes |-> <<500, -100>>],
               [present |-> TRUE, axes |-> <<-149, 150, -500, 700>>],
               [present |-> TRUE, axes |-> <<0, -700, 149, 500, 900>>]}

\* The event alphabets of SpecIdle: a stick resting exactly on the dead zone
\* and one pushed beyond it.
IdleKeyNames == {"w", "a"}
IdlePolled == {[present |-> FALSE, axes |-> <<>>],
               [present |-> TRUE, axes |-> <<150, 150>>],
               [present |-> TRUE, axes |-> <<500, 500>>]}

(* ---------------- program constants ---------------- *)

worldSize == 100

\* worldSize / 2 - 2, in thousandths.
boundary == (worldSize * 1000) \div 2 - 2000

\* Units per second.
carSpeed == 10

\* Math.PI radians per second = 2 quarter turns per second.
turnSpeed == 2

\* 0.15 in thousandths.
deadZone == 150

\* let gamepadIndex = null
NullIndex == -1

\* car.position.y = 0.5, in thousandths.
groundOffset == 500

(* ---------------- helpers ---------------- *)

Abs(v) == IF v < 0 THEN -v ELSE v

Min(a, b) == IF a < b THEN a ELSE b

\* clamp with the lower bound forgotten.
clampUpperOnly(v, lo, hi) == IF v > hi THEN hi ELSE v

\* THREE.MathUtils.clamp
clamp(v, lo, hi) == IF v < lo THEN lo ELSE IF v > hi THEN hi ELSE v

\* The key compared as typed.
keyAsTyped(k) == k

\* String.prototype.toLowerCase on the key alphabet.
toLowerCase(k) ==
  CASE k = "W" -> "w"
    [] k = "A" -> "a"
    [] k = "S" -> "s"
    [] k = "D" -> "d"
    [] k = "ArrowUp" -> "arrowup"
    [] k = "ArrowLeft" -> "arrowleft"
    [] k = "ArrowDown" -> "arrowdown"
    [] k = "ArrowRight" -> "arrowright"
    [] OTHER -> k

\* The switch shared by handleKeyDown and handleKeyUp: the flag a key sets.
KeyFlag(k) ==
  LET l == toLowerCase(k) IN
  CASE l \in {"w", "arrowup"} -> "w"
    [] l \in {"a", "arrowleft"} -> "a"
    [] l \in {"s", "arrowdown"} -> "s"
    [] l \in {"d", "arrowright"} -> "d"
    [] OTHER -> "none"

\* Sine and cosine of a yaw given in quarter turns.
Sin4(q) == <<0, 1, 0, -1>>[(q % 4) + 1]
Cos4(q) == <<1, 0, -1, 0>>[(q % 4) + 1]

(* ---------------- updateGamepadInput ---------------- *)

\* The polled value stored as read, small or not.
ApplyNoDeadZone(value) == value

\* The dead-zone filter of one polled axis value.
ApplyDeadZone(value) == IF Abs(value) < deadZone THEN 0 ELSE value

\* The axis loop clearing the tracked axes the device does not report.
ReadAxesClearRest(axes, gpAxes) ==
  [i \in 1..Len(axes) |->
     IF i <= Min(Len(gpAxes), Len(axes)) THEN ApplyDeadZone(gpAxes[i])
                                         ELSE 0]

\* The axis loop: the first min(gp.axes.length, 4) tracked axes are rewritten.
ReadAxes(axes, gpAxes) ==
  [i \in 1..Len(axes) |->
     IF i <= Min(Len(gpAxes), Len(axes)) THEN ApplyDeadZone(gpAxes[i])
                                         ELSE axes[i]]

\* updateGamepadInput: the new gamepadIndex and gamepadState.
UpdateGamepadInput(idx, state, gp) ==
  IF idx = NullIndex THEN [index |-> idx, state |-> state]
  ELSE IF ~gp.present THEN [index |-> NullIndex, state |-> state]
  ELSE [index |-> idx,
        state |-> [state EXCEPT !.axes = ReadAxes(state.axes, gp.axes)]]

(* ---------------- updateCar ---------------- *)

\* The back key contributing a full +1.
KeyForwardFullReverse(k) ==
  (IF k.w THEN -1000 ELSE 0) + (IF k.s THEN 1000 ELSE 0)

\* Keyboard contribution to forwardInput.
KeyForward(k) == (IF k.w THEN -1000 ELSE 0) + (IF k.s THEN 600 ELSE 0)

\* Keyboard contribution to turnInput.
KeyTurn(k) == (IF k.a THEN 1000 ELSE 0) + (IF k.d THEN -1000 ELSE 0)

\* The override with the reverse branch left unscaled.
ResolveForwardUnscaled(k, axes) ==
  LET gpForward == -axes[2] IN
  IF Abs(gpForward) > deadZone
    THEN IF gpForward > 0 THEN -gpForward ELSE gpForward
    ELSE (IF k.w THEN -1000 ELSE 0) + (IF k.s THEN 600 ELSE 0)

\* forwardInput after the gamepad override.
ResolveForward(k, axes) ==
  LET gpForward == -axes[2] IN
  IF Abs(gpForward) > deadZone
    THEN IF gpForward > 0 THEN -gpForward ELSE (gpForward * 600) \div 1000
    ELSE KeyForward(k)

\* The gamepad turn value added to the keyboard value.
ResolveTurnBlend(k, axes) ==
  LET gpTurn == axes[1] IN
  (IF k.a THEN 1000 ELSE 0) + (IF k.d THEN -1000 ELSE 0)
    + (IF Abs(gpTurn) > deadZone THEN -gpTurn ELSE 0)

\* The turn override taken from the dead zone on (>= for >).
ResolveTurnFromThreshold(k, axes) ==
  LET gpTurn == axes[1] IN
  IF Abs(gpTurn) >= deadZone
    THEN -gpTurn
    ELSE (IF k.a THEN 1000 ELSE 0) + (IF k.d THEN -1000 ELSE 0)

\* turnInput after the gamepad override.
ResolveTurn(k, axes) ==
  LET gpTurn == axes[1] IN
  IF Abs(gpTurn) > deadZone THEN -gpTurn ELSE KeyTurn(k)

\* car.rotateY(angle), angle in quarter turns.
rotateY(c, angle) == [c EXCEPT !.yaw = (c.yaw + angle) % 4]

\* car.translateZ(distance): along the local z axis of the current heading.
translateZ(c, distance) ==
  [c EXCEPT !.position.x = c.position.x + distance * Sin4(c.yaw),
            !.position.z = c.position.z + distance * Cos4(c.yaw)]

\* The boundary checks of updateCar.
BoundaryCheck(c) ==
  [c EXCEPT !.position.x = clamp(c.position.x, -boundary, boundary),
            !.position.z = clamp(c.position.z, -boundary, boundary)]

\* The vertical coordinate left as it is.
KeepHeight(c) == c

\* car.position.y = 0.5
KeepOnGround(c) == [c EXCEPT !.position.y = groundOffset]

\* updateCar moving the vehicle before it turns it.
UpdateCarTranslateFirst(c, fwd, turn, deltaTime) ==
  LET currentTurnSpeed == turnSpeed * deltaTime
      currentMoveSpeed == carSpeed * deltaTime
      moved == IF fwd # 0
                 THEN translateZ(c, (currentMoveSpeed * fwd) \div 1000)
                 ELSE c
      rotated == IF turn # 0
                   THEN rotateY(moved, (currentTurnSpeed * turn) \div 1000000)
                   ELSE moved
  IN KeepOnGround(BoundaryCheck(rotated))

\* updateCar(deltaTime) with the resolved inputs fwd and turn.
UpdateCar(c, fwd, turn, deltaTime) ==
  LET currentTurnSpeed == turnSpeed * deltaTime
      currentMoveSpeed == carSpeed * deltaTime
      rotated == IF turn # 0
                   THEN rotateY(c, (currentTurnSpeed * turn) \div 1000000)
                   ELSE c
      moved == IF fwd # 0
                 THEN translateZ(rotated, (currentMoveSpeed * fwd) \div 1000)
                 ELSE rotated
  IN KeepOnGround(BoundaryCheck(moved))

(* ---------------- updateCamera ---------------- *)

\* new THREE.Vector3(0, 5, 12).applyQuaternion(car.quaternion)
CameraOffset(c) ==
  [x |-> 12000 * Sin4(c.yaw), y |-> 5000, z |-> 12000 * Cos4(c.yaw)]

\* The rotated offset taken for the target, the vehicle position left out.
DesiredOffsetOnly(c) == CameraOffset(c)

\* targetPosition.clone().add(offset)
DesiredCameraPosition(c) ==
  [x |-> c.position.x + CameraOffset(c).x,
   y |-> c.position.y + CameraOffset(c).y,
   z |-> c.position.z + CameraOffset(c).z]

\* Vector3.lerp(v, 0.05), one coordinate.
Lerp(from, to) == from + ((to - from) * 50) \div 1000

\* updateCamera: the new camera position.
UpdateCamera(cam, c) ==
  LET desired == DesiredCameraPosition(c) IN
  [cam EXCEPT !.position = [x |-> Lerp(cam.position.x, desired.x),
                            y |-> Lerp(cam.position.y, desired.y),
                            z |-> Lerp(cam.position.z, desired.z)]]

(* ---------------- createObstacles ---------------- *)

\* createObstacles(30) in init().
startupCount == 30

\* One placed obstacle: position.set(x, 0.5, z), scale.set(scale, ...),
\* position.y = scale / 2.
Obstacle(x, z, scale) ==
  [x |-> x, y |-> scale \div 2, z |-> z, scale |-> scale]

\* A field createObstacles(30) can leave behind: every draw the same.
StartupField == [n \in 1..startupCount |-> Obstacle(-20000, 5000, 1000)]

\* The count argument of createObstacles.
ObstacleCounts == {0, 1, startupCount}

\* randFloatSpread(worldSize * 0.9) results, in thousandths: on the edge of
\* the exclusion square and well outside it.
DrawValues == {-20000, 5000}

\* The (x, z) draws offered to the while loop of obstacle i.
DrawPairs(i) ==
  IF i < MaxVariedObstacles THEN DrawValues \X DrawValues
                            ELSE {<<-20000, 5000>>, <<5000, 5000>>}

\* randFloat(1, 4) results offered to obstacle i.
ScaleValues(i) == IF i < MaxVariedObstacles THEN {1000, 4000} ELSE {1000}

\* The test rejecting every draw within 50 units, the world's half size.
AcceptsBeyondWorld(x, z) == Abs(x) > 50000 \/ Abs(z) > 50000

\* The test with >= for >.
AcceptsOnEdge(x, z) == Abs(x) >= 5000 \/ Abs(z) >= 5000

\* Math.abs(x) > 5 || Math.abs(z) > 5
Accepts(x, z) == Abs(x) > 5000 \/ Abs(z) > 5000

\* One pass of the while loop of createObstacles with the draws x and z: a
\* rejected draw leaves the obstacle unplaced; an accepted one places it,
\* scales it, pushes it and moves the for loop on.
placeAttempt(x, z, scale) ==
  /\ create.pc = "placing"
  /\ create.i < create.count
  /\ IF Accepts(x, z)
       THEN /\ obstacles' = Append(obstacles, Obstacle(x, z, scale))
            /\ create' = [create EXCEPT !.i = create.i + 1,
                                        !.draw = <<x, z>>]
       ELSE /\ obstacles' = obstacles
            /\ create' = [create EXCEPT !.draw = <<x, z>>,
                                        !.rejected = TRUE]
  /\ UNCHANGED <<keys, gamepadIndex, gamepadState, car, camera,
                 forwardInput, turnInput, frames, padEvent, polled, last,
                 lastDelta, loop, keyLog>>

\* The for loop of createObstacles ends: i < count fails.
createObstaclesReturn ==
  /\ create.pc = "placing"
  /\ create.i >= create.count
  /\ create' = [create EXCEPT !.pc = "done"]
  /\ UNCHANGED <<keys, gamepadIndex, gamepadState, car, camera,
                 forwardInput, turnInput, frames, padEvent, polled, last,
                 lastDelta, loop, keyLog, obstacles>>

(* ---------------- history of key events ---------------- *)

\* No key event recorded, and recording switched off.
NoKeyLog == [on |-> FALSE, kind |-> "none", key |-> "none", twice |-> FALSE,
             held |-> {}]

\* The record after a key event: its kind and key, whether it repeats the
\* event before it, and the keys now held down.  Only specifications that
\* start with recording on keep the record.
LogKey(log, kind, key) ==
  IF ~log.on THEN log
  ELSE [on |-> TRUE, kind |-> kind, key |-> key,
        twice |-> (log.kind = kind /\ log.key = key),
        held |-> IF kind = "down" THEN log.held \cup {key}
                                  ELSE log.held \ {key}]

(* ---------------- state after init() ---------------- *)

Init ==
  /\ keys = [w |-> FALSE, a |-> FALSE, s |-> FALSE, d |-> FALSE]
  /\ gamepadIndex = NullIndex
  /\ gamepadState = [axes |-> <<0, 0, 0, 0>>, buttons |-> <<>>]
  /\ car = [position |-> [x |-> 0, y |-> groundOffset, z |-> 0], yaw |-> 0]
  /\ camera = [position |-> [x |-> 0, y |-> 0, z |-> 0]]
  /\ forwardInput = 0
  /\ turnInput = 0
  /\ frames = 0
  /\ padEvent = "none"
  /\ polled = NotPolled
  /\ last = "init"
  /\ obstacles = StartupField
  /\ create = [pc |-> "done", count |-> startupCount, i |-> startupCount,
               draw |-> <<-20000, 5000>>, rejected |-> FALSE]
  /\ lastDelta = 0
  /\ loop = [pc |-> "enter", pending |-> 0]
  /\ keyLog = NoKeyLog

(* ---------------- event handlers ---------------- *)

\* The key-down handler flipping the flag instead of setting it.
handleKeyDownToggle(key) ==
  /\ keys' = IF KeyFlag(key) = "none" THEN keys
             ELSE [keys EXCEPT ![KeyFlag(key)] = ~keys[KeyFlag(key)]]
  /\ last' = "event"
  /\ keyLog' = LogKey(keyLog, "down", key)
  /\ UNCHANGED <<gamepadIndex, gamepadState, car, camera,
                 forwardInput, turnInput, frames, padEvent, polled>>
  /\ UNCHANGED <<fieldVars, lastDelta, loop>>

handleKeyDown(key) ==
  /\ keys' = IF KeyFlag(key) = "none" THEN keys
             ELSE [keys EXCEPT ![KeyFlag(key)] = TRUE]
  /\ last' = "event"
  /\ keyLog' = LogKey(keyLog, "down", key)
  /\ UNCHANGED <<gamepadIndex, gamepadState, car, camera,
                 forwardInput, turnInput, frames, padEvent, polled>>
  /\ UNCHANGED <<fieldVars, lastDelta, loop>>

handleKeyUp(key) ==
  /\ keys' = IF KeyFlag(key) = "none" THEN keys
             ELSE [keys EXCEPT ![KeyFlag(key)] = FALSE]
  /\ last' = "event"
  /\ keyLog' = LogKey(keyLog, "up", key)
  /\ UNCHANGED <<gamepadIndex, gamepadState, car, camera,
                 forwardInput, turnInput, frames, padEvent, polled>>
  /\ UNCHANGED <<fieldVars, lastDelta, loop>>

\* Every connect event taking over the tracked index.
handleGamepadConnectedAlways(index, buttonCount) ==
  /\ gamepadIndex' = index
  /\ gamepadState' =
       [gamepadState EXCEPT !.buttons = [b \in 1..buttonCount |-> FALSE]]
  /\ padEvent' = IF gamepadIndex = NullIndex THEN "connected" ELSE "ignored"
  /\ last' = "event"
  /\ UNCHANGED <<keys, car, camera, forwardInput, turnInput, frames, polled>>
  /\ UNCHANGED <<fieldVars, lastDelta, loop, keyLog>>

handleGamepadConnected(index, buttonCount) ==
  /\ IF gamepadIndex = NullIndex
       THEN /\ gamepadIndex' = index
            /\ gamepadState' =
                 [gamepadState EXCEPT
                    !.buttons = [b \in 1..buttonCount |-> FALSE]]
            /\ padEvent' = "connected"
       ELSE /\ padEvent' = "ignored"
            /\ UNCHANGED <<gamepadIndex, gamepadState>>
  /\ last' = "event"
  /\ UNCHANGED <<keys, car, camera, forwardInput, turnInput, frames, polled>>
  /\ UNCHANGED <<fieldVars, lastDelta, loop, keyLog>>

\* The disconnect handler clearing the index but keeping the axes.
handleGamepadDisconnectedKeepAxes(index) ==
  /\ IF index = gamepadIndex
       THEN /\ gamepadIndex' = NullIndex
            /\ padEvent' = "disconnected"
            /\ UNCHANGED gamepadState
       ELSE UNCHANGED <<gamepadIndex, gamepadState, padEvent>>
  /\ last' = "event"
  /\ UNCHANGED <<keys, car, camera, forwardInput, turnInput, frames, polled>>
  /\ UNCHANGED <<fieldVars, lastDelta, loop, keyLog>>

handleGamepadDisconnected(index) ==
  /\ IF index = gamepadIndex
       THEN /\ gamepadIndex' = NullIndex
            /\ gamepadState' =
                 [axes |-> <<0, 0, 0, 0>>,
                  buttons |-> [b \in 1..Len(gamepadState.buttons) |-> FALSE]]
            /\ padEvent' = "disconnected"
       ELSE UNCHANGED <<gamepadIndex, gamepadState, padEvent>>
  /\ last' = "event"
  /\ UNCHANGED <<keys, car, camera, forwardInput, turnInput, frames, polled>>
  /\ UNCHANGED <<fieldVars, lastDelta, loop, keyLog>>

\* The resize handler building a fresh camera, which sits at the origin.
onWindowResizeNewCamera ==
  /\ last' = "event"
  /\ camera' = [position |-> [x |-> 0, y |-> 0, z |-> 0]]
  /\ UNCHANGED <<keys, gamepadIndex, gamepadState, car,
                 forwardInput, turnInput, frames, padEvent, polled>>
  /\ UNCHANGED <<fieldVars, lastDelta, loop, keyLog>>

\* onWindowResize touches only the projection and the renderer size.
onWindowResize ==
  /\ last' = "event"
  /\ UNCHANGED <<keys, gamepadIndex, gamepadState, car, camera,
                 forwardInput, turnInput, frames, padEvent, polled>>
  /\ UNCHANGED <<fieldVars, lastDelta, loop, keyLog>>

(* ---------------- the frame callback ---------------- *)

\* One run of animate, start to end: getDelta gives dt,
\* getGamepads()[gamepadIndex] gives gp (read only when a gamepad is
\* tracked), and one next run has been requested.
animate(dt, gp) ==
  LET g == UpdateGamepadInput(gamepadIndex, gamepadState, gp)
      fwd == ResolveForward(keys, g.state.axes)
      turn == ResolveTurn(keys, g.state.axes)
      c == UpdateCar(car, fwd, turn, dt)
  IN /\ loop.pc \in {"enter", "idle"}
     /\ loop' = [pc |-> "idle", pending |-> 1]
     /\ lastDelta' = dt
     /\ gamepadIndex' = g.index
     /\ gamepadState' = g.state
     /\ forwardInput' = fwd
     /\ turnInput' = turn
     /\ car' = c
     /\ camera' = UpdateCamera(camera, c)
     /\ padEvent' = IF gamepadIndex # NullIndex /\ ~gp.present
                      THEN "lost" ELSE padEvent
     /\ polled' = gp
     /\ last' = "animate"
     /\ frames' = frames + 1
     /\ UNCHANGED <<keys, fieldVars, keyLog>>

(* ---------------- specifications ---------------- *)

\* Every event alphabet in full, the clock standing still.
Next ==
  \/ \E key \in KeyNames : handleKeyDown(key)
  \/ \E key \in KeyNames : handleKeyUp(key)
  \/ \E index \in PadIndices, n \in ButtonCounts :
       handleGamepadConnected(index, n)
  \/ \E index \in PadIndices : handleGamepadDisconnected(index)
  \/ onWindowResize
  \/ /\ frames < MaxFrames
     /\ \E dt \in FrozenClock,
           gp \in (IF gamepadIndex = NullIndex THEN {NotPolled} ELSE Polled) :
          animate(dt, gp)

Spec == Init /\ [][Next]_vars

\* The clock running, with smaller event alphabets.
NextDrive ==
  \/ \E key \in DriveKeyNames : handleKeyDown(key)
  \/ \E key \in DriveKeyNames : handleKeyUp(key)
  \/ \E index \in DrivePadIndices, n \in ButtonCounts :
       handleGamepadConnected(index, n)
  \/ \E index \in DrivePadIndices : handleGamepadDisconnected(index)
  \/ onWindowResize
  \/ /\ frames < MaxDriveFrames
     /\ \E dt \in DeltaTimes,
           gp \in (IF gamepadIndex = NullIndex THEN {NotPolled}
                                               ELSE DrivePolled) :
          animate(dt, gp)

SpecDrive == Init /\ [][NextDrive]_vars

\* The vertical coordinate the handlers find is arbitrary: SpecDrift starts
\* the vehicle at any of these heights (the placement of init() among them).
StartHeights == {0, groundOffset, 2000}

InitDrift ==
  /\ keys = [w |-> FALSE, a |-> FALSE, s |-> FALSE, d |-> FALSE]
  /\ gamepadIndex = NullIndex
  /\ gamepadState = [axes |-> <<0, 0, 0, 0>>, buttons |-> <<>>]
  /\ \E h \in StartHeights :
       car = [position |-> [x |-> 0, y |-> h, z |-> 0], yaw |-> 0]
  /\ camera = [position |-> [x |-> 0, y |-> 0, z |-> 0]]
  /\ forwardInput = 0
  /\ turnInput = 0
  /\ frames = 0
  /\ padEvent = "none"
  /\ polled = NotPolled
  /\ last = "init"
  /\ obstacles = StartupField
  /\ create = [pc |-> "done", count |-> startupCount, i |-> startupCount,
               draw |-> <<-20000, 5000>>, rejected |-> FALSE]
  /\ lastDelta = 0
  /\ loop = [pc |-> "enter", pending |-> 0]
  /\ keyLog = NoKeyLog

SpecDrift == InitDrift /\ [][NextDrive]_vars

\* The state after init() with the key events recorded from here on.
InitKeys ==
  /\ keys = [w |-> FALSE, a |-> FALSE, s |-> FALSE, d |-> FALSE]
  /\ gamepadIndex = NullIndex
  /\ gamepadState = [axes |-> <<0, 0, 0, 0>>, buttons |-> <<>>]
  /\ car = [position |-> [x |-> 0, y |-> groundOffset, z |-> 0], yaw |-> 0]
  /\ camera = [position |-> [x |-> 0, y |-> 0, z |-> 0]]
  /\ forwardInput = 0
  /\ turnInput = 0
  /\ frames = 0
  /\ padEvent = "none"
  /\ polled = NotPolled
  /\ last = "init"
  /\ obstacles = StartupField
  /\ create = [pc |-> "done", count |-> startupCount, i |-> startupCount,
               draw |-> <<-20000, 5000>>, rejected |-> FALSE]
  /\ lastDelta = 0
  /\ loop = [pc |-> "enter", pending |-> 0]
  /\ keyLog = [NoKeyLog EXCEPT !.on = TRUE]

\* A keyboard session: key and resize events only.
NextKeys ==
  \/ \E key \in KeyNames : handleKeyDown(key)
  \/ \E key \in KeyNames : handleKeyUp(key)
  \/ onWindowResize

SpecKeys == InitKeys /\ [][NextKeys]_vars

\* Vehicle poses at which SpecCamera starts, the camera settled behind the
\* vehicle: the startup pose, and one off the origin facing a quarter turn.
RestPoses ==
  {[position |-> [x |-> 0, y |-> groundOffset, z |-> 0], yaw |-> 0],
   [position |-> [x |-> 10000, y |-> groundOffset, z |-> -20000], yaw |-> 1]}

\* A running session whose camera has caught up with the vehicle.
InitCamera ==
  /\ keys = [w |-> FALSE, a |-> FALSE, s |-> FALSE, d |-> FALSE]
  /\ gamepadIndex = NullIndex
  /\ gamepadState = [axes |-> <<0, 0, 0, 0>>, buttons |-> <<>>]
  /\ car \in RestPoses
  /\ camera = [position |->
                 [x |-> car.position.x + 12000 * Sin4(car.yaw),
                  y |-> car.position.y + 5000,
                  z |-> car.position.z + 12000 * Cos4(car.yaw)]]
  /\ forwardInput = 0
  /\ turnInput = 0
  /\ frames = 0
  /\ padEvent = "none"
  /\ polled = NotPolled
  /\ last = "init"
  /\ obstacles = StartupField
  /\ create = [pc |-> "done", count |-> startupCount, i |-> startupCount,
               draw |-> <<-20000, 5000>>, rejected |-> FALSE]
  /\ lastDelta = 0
  /\ loop = [pc |-> "idle", pending |-> 1]
  /\ keyLog = NoKeyLog

\* Keyboard driving with the clock running: no gamepad connects.
NextCamera ==
  \/ \E key \in DriveKeyNames : handleKeyDown(key)
  \/ \E key \in DriveKeyNames : handleKeyUp(key)
  \/ onWindowResize
  \/ /\ frames < MaxDriveFrames
     /\ \E dt \in DeltaTimes : animate(dt, NotPolled)

SpecCamera == InitCamera /\ [][NextCamera]_vars

\* init() at its call of createObstacles: the car is built, no obstacle yet.
InitObstacles ==
  /\ keys = [w |-> FALSE, a |-> FALSE, s |-> FALSE, d |-> FALSE]
  /\ gamepadIndex = NullIndex
  /\ gamepadState = [axes |-> <<0, 0, 0, 0>>, buttons |-> <<>>]
  /\ car = [position |-> [x |-> 0, y |-> groundOffset, z |-> 0], yaw |-> 0]
  /\ camera = [position |-> [x |-> 0, y |-> 0, z |-> 0]]
  /\ forwardInput = 0
  /\ turnInput = 0
  /\ frames = 0
  /\ padEvent = "none"
  /\ polled = NotPolled
  /\ last = "init"
  /\ obstacles = <<>>
  /\ \E count \in ObstacleCounts :
       create = [pc |-> "placing", count |-> count, i |-> 0,
                 draw |-> <<>>, rejected |-> FALSE]
  /\ lastDelta = 0
  /\ loop = [pc |-> "enter", pending |-> 0]
  /\ keyLog = NoKeyLog

NextObstacles ==
  \/ \E pair \in DrawPairs(create.i), scale \in ScaleValues(create.i) :
       placeAttempt(pair[1], pair[2], scale)
  \/ createObstaclesReturn

SpecObstacles == InitObstacles /\ [][NextObstacles]_vars

\* A pass of the while loop whose draw is accepted.
AcceptedAttempt ==
  \E pair \in DrawPairs(create.i), scale \in ScaleValues(create.i) :
    Accepts(pair[1], pair[2]) /\ placeAttempt(pair[1], pair[2], scale)

\* The loops keep running, and a draw outside the exclusion square comes up
\* eventually as long as draws are made.
SpecObstaclesFair ==
  /\ SpecObstacles
  /\ WF_vars(AcceptedAttempt)
  /\ WF_vars(createObstaclesReturn)

(* ---------------- properties ---------------- *)

\* C1: in every reachable state the vehicle's x and z lie in
\* [-boundary, boundary] = [-48, 48], whatever deltaTime and inputs were.
C1_WithinWorldBounds ==
  /\ -boundary <= car.position.x /\ car.position.x <= boundary
  /\ -boundary <= car.position.z /\ car.position.z <= boundary
  /\ boundary = 48000

\* A stalled frame (20 s) with the forward key held: the 200-unit move is
\* clamped to the far edge.
C1_Witness ==
  /\ last = "animate"
  /\ forwardInput = -1000
  /\ car.position.z = -boundary

\* C2: every run of updateCar leaves the vertical coordinate at the ground
\* offset 0.5 whatever it was before, and no step moves it away from there.
C2_PinnedToGround ==
  [][/\ frames' # frames => car'.position.y = groundOffset
     /\ car.position.y = groundOffset => car'.position.y = groundOffset]_vars

\* The first frame has moved the vehicle and left it at the ground offset.
C2_Witness ==
  /\ last = "animate"
  /\ frames = 1
  /\ car.position.z # 0
  /\ car.position.y = groundOffset

\* C3: once a poll has found the tracked gamepad missing, the index is
\* cleared and every later frame resolves both inputs from the keys alone.
C3_KeyboardOnlyAfterLoss ==
  [][/\ padEvent' = "lost" => gamepadIndex' = NullIndex
     /\ (padEvent = "lost" /\ frames' # frames)
          => /\ forwardInput' = KeyForward(keys)
             /\ turnInput' = KeyTurn(keys)]_vars

\* C4: after a disconnect event for the tracked gamepad, the tracked axes
\* are all zero and the index is null until a gamepad connects, and every
\* frame in between resolves both inputs from the keys alone.
C4_DisconnectFallsBack ==
  [][/\ padEvent' = "disconnected"
          => /\ gamepadIndex' = NullIndex
             /\ gamepadState'.axes = <<0, 0, 0, 0>>
     /\ (padEvent = "disconnected" /\ frames' # frames)
          => /\ forwardInput' = KeyForward(keys)
             /\ turnInput' = KeyTurn(keys)]_vars

\* A frame after the disconnect of a gamepad that had been read, with the
\* forward key held.
C4_Witness ==
  /\ padEvent = "disconnected"
  /\ last = "animate"
  /\ frames >= 2
  /\ keys.w /\ ~keys.s
  /\ forwardInput = -1000

\* C5: with the stick pulled back beyond the dead zone (inverted axis
\* negative), the resolved forward input is positive like the back key's
\* contribution, with 0.6 times the stick's magnitude.
C5_PullBackReverses ==
  (last = "animate" /\ -gamepadState.axes[2] < -deadZone)
    => /\ forwardInput > 0
       /\ forwardInput * 1000 = 600 * gamepadState.axes[2]

\* C6: with the tracked turn axis beyond the dead zone, the frame's turn
\* input is minus the axis value, whatever the left/right keys are.
C6_TurnAxisOverrides ==
  (last = "animate" /\ Abs(gamepadState.axes[1]) > deadZone)
    => turnInput = -gamepadState.axes[1]

\* Axis 0.5 with the left key held gives -0.5.
C6_Witness ==
  /\ last = "animate"
  /\ gamepadState.axes[1] = 500
  /\ keys.a /\ ~keys.d
  /\ turnInput = -500

C8_KeyboardSums ==
  (last = "animate" /\ \A i \in 1..4 : Abs(gamepadState.axes[i]) <= deadZone)
    => /\ forwardInput = CASE keys.w /\ ~keys.s -> -1000
                           [] ~keys.w /\ keys.s -> 600
                           [] keys.w /\ keys.s -> -400
                           [] OTHER -> 0
       /\ turnInput = CASE keys.a /\ ~keys.d -> 1000
                        [] ~keys.a /\ keys.d -> -1000
                        [] OTHER -> 0

\* Forward and back held together, with the stick resting exactly on the
\* dead zone.
C8_Witness ==
  /\ last = "animate"
  /\ keys.w /\ keys.s /\ keys.d /\ ~keys.a
  /\ gamepadState.axes[2] = deadZone
  /\ forwardInput = -400
  /\ turnInput = -1000

\* C9: a polled reading below the dead zone is stored as 0, and that axis's
\* input of the frame is the keyboard value.
C9_SmallReadingSnapped ==
  (last = "animate" /\ polled.present) =>
    \A i \in 1..Len(polled.axes) :
      Abs(polled.axes[i]) < deadZone
        => /\ gamepadState.axes[i] = 0
           /\ i = 1 => turnInput = KeyTurn(keys)
           /\ i = 2 => forwardInput = KeyForward(keys)

\* A reading of 0.10 on the forward axis with the back key held.
C9_Witness ==
  /\ last = "animate"
  /\ polled.present
  /\ polled.axes[2] = 100
  /\ keys.s /\ ~keys.w
  /\ forwardInput = 600

\* C10: the tracked index never changes from one device to another: it is
\* set only when it was null, and otherwise only cleared.
C10_FirstConnectedWins ==
  [][gamepadIndex' # gamepadIndex
       => (gamepadIndex = NullIndex \/ gamepadIndex' = NullIndex)]_vars

\* A connect event arrived while a gamepad was tracked.
C10_Witness ==
  /\ padEvent = "ignored"
  /\ gamepadIndex \in PadIndices

\* C11: createObstacles(count) ends with exactly count obstacles, and no
\* obstacle ever lies in the closed 5-unit square around the origin.
C11_CountAndExclusion ==
  /\ Len(obstacles) = create.i
  /\ create.i <= create.count
  /\ create.pc = "done" => Len(obstacles) = create.count
  /\ \A n \in 1..Len(obstacles) :
       ~(Abs(obstacles[n].x) <= 5000 /\ Abs(obstacles[n].z) <= 5000)

\* The startup call has returned with 30 obstacles after a rejected draw.
C11_Witness ==
  /\ create.pc = "done"
  /\ create.count = 30
  /\ Len(obstacles) = 30
  /\ create.rejected
  /\ obstacles[1] # obstacles[2]

\* C17: given that accepted draws keep coming up, createObstacles completes
\* with all count obstacles placed.
C17_PlacementTerminates ==
  <>(create.pc = "done" /\ Len(obstacles) = create.count)

\* A run that saw rejected draws on the way has completed.
C17_Witness ==
  /\ create.pc = "done"
  /\ create.rejected
  /\ create.count > 1
  /\ create.draw # <<>>

\* C12: a key-down or key-up event that repeats the event just before it
\* leaves the four flags as the first of the two left them.
C12_KeyEventsIdempotent ==
  [][(keyLog'.twice /\ keyLog'.kind = keyLog.kind /\ keyLog'.key = keyLog.key)
       => keys' = keys]_vars

\* ArrowUp has gone down twice in a row.
C12_Witness ==
  /\ keyLog.twice
  /\ keyLog.kind = "down"
  /\ keyLog.key = "ArrowUp"
  /\ keys.w

\* The keys the claim maps to each flag: the letter in either case and the
\* arrow key.
C19_Aliases(flag) ==
  CASE flag = "w" -> {"w", "W", "ArrowUp"}
    [] flag = "a" -> {"a", "A", "ArrowLeft"}
    [] flag = "s" -> {"s", "S", "ArrowDown"}
    [] flag = "d" -> {"d", "D", "ArrowRight"}

\* C19: every key event sets the flag of the key's direction to the event's
\* kind (down = TRUE, up = FALSE), whatever other aliases are held, and
\* leaves the flags of the other directions, and all flags for an unmapped
\* key, unchanged; so each flag is the kind of the latest event of its keys.
C19_FlagFollowsLatestEvent ==
  [][keyLog' # keyLog =>
       \A flag \in {"w", "a", "s", "d"} :
         keys'[flag] = IF keyLog'.key \in C19_Aliases(flag)
                         THEN keyLog'.kind = "down"
                         ELSE keys[flag]]_vars

\* W has been released while ArrowUp is still held: the flag is cleared.
C19_Witness ==
  /\ keyLog.kind = "up"
  /\ keyLog.key = "W"
  /\ "ArrowUp" \in keyLog.held
  /\ ~keys.w

\* C13 as stated: no step other than a frame changes the vehicle pose, the
\* camera position, the key flags or the tracked gamepad state.
C13_OnlyFramesMutate ==
  [][frames' = frames
       => UNCHANGED <<car, camera, keys, gamepadIndex, gamepadState>>]_vars

\* C13 amended: the vehicle pose and the camera position change only in a
\* frame; the key flags change only outside frames, in steps that leave the
\* tracked gamepad state alone.
C13_PoseChangesOnlyInFrames ==
  [][/\ frames' = frames => (car' = car /\ camera' = camera)
     /\ keys' # keys
          => (frames' = frames /\ UNCHANGED <<gamepadIndex, gamepadState>>)]_vars

\* An event handler has run after a frame that moved vehicle and camera.
C13_Witness ==
  /\ last = "event"
  /\ frames >= 1
  /\ car.position.z # 0
  /\ camera.position.z # 0
  /\ keys.d

\* The camera sits at the vehicle position plus the offset (0, 5, 12)
\* turned by the vehicle's yaw.
C14_CameraAtRest ==
  /\ camera.position.x = car.position.x + 12000 * Sin4(car.yaw)
  /\ camera.position.y = car.position.y + 5000
  /\ camera.position.z = car.position.z + 12000 * Cos4(car.yaw)

\* C14: a frame that finds the camera at that position and does not move the
\* vehicle leaves the camera position unchanged.
C14_RestIsFixedPoint ==
  [][(frames' # frames /\ car' = car /\ C14_CameraAtRest)
       => camera'.position = camera.position]_vars

\* Two frames, the second a stalled one, have left the camera at rest behind
\* the vehicle that stands off the origin.
C14_Witness ==
  /\ last = "animate"
  /\ frames = 2
  /\ lastDelta = 20000
  /\ car.yaw = 1
  /\ car.position.x = 10000
  /\ C14_CameraAtRest

\* C15: in a frame with both inputs non-zero the yaw is advanced by
\* turnSpeed * deltaTime * turnInput first, and the vehicle then moves
\* carSpeed * deltaTime * forwardInput along the forward axis of the new
\* heading (and is clamped to the world bounds).
C15_RotateThenTranslate ==
  [][(frames' # frames /\ turnInput' # 0 /\ forwardInput' # 0) =>
       LET yawAfter == (car.yaw + (2 * lastDelta' * turnInput') \div 1000000) % 4
           distance == (10 * lastDelta' * forwardInput') \div 1000
           reach(v) == IF v < -48000 THEN -48000
                       ELSE IF v > 48000 THEN 48000 ELSE v
       IN /\ car'.yaw = yawAfter
          /\ car'.position.x = reach(car.position.x + distance * Sin4(yawAfter))
          /\ car'.position.z = reach(car.position.z + distance * Cos4(yawAfter))]_vars

\* One frame of one second with the stick right and back: a quarter turn to
\* the right, then 3 units along the new heading, which is the x axis.
C15_Witness ==
  /\ last = "animate"
  /\ frames = 1
  /\ lastDelta = 1000
  /\ turnInput = -500
  /\ forwardInput = -300
  /\ car.yaw = 3
  /\ car.position.x = 3000
  /\ car.position.z = 0

\* Sessions with the clock running in which the stick rests on the dead zone.
NextIdle ==
  \/ \E key \in IdleKeyNames : handleKeyDown(key)
  \/ \E key \in IdleKeyNames : handleKeyUp(key)
  \/ \E index \in DrivePadIndices, n \in ButtonCounts :
       handleGamepadConnected(index, n)
  \/ \E index \in DrivePadIndices : handleGamepadDisconnected(index)
  \/ onWindowResize
  \/ /\ frames < MaxDriveFrames
     /\ \E dt \in DeltaTimes,
           gp \in (IF gamepadIndex = NullIndex THEN {NotPolled}
                                               ELSE IdlePolled) :
          animate(dt, gp)

SpecIdle == Init /\ [][NextIdle]_vars

\* C20: a frame with no key flag set and neither stick axis beyond the dead
\* zone leaves the vehicle's position and orientation as they were,
\* whatever deltaTime is.
C20_IdleFrameKeepsPose ==
  [][(/\ frames' # frames
      /\ ~keys.w /\ ~keys.a /\ ~keys.s /\ ~keys.d
      /\ Abs(gamepadState'.axes[1]) <= deadZone
      /\ Abs(gamepadState'.axes[2]) <= deadZone)
       => car' = car]_vars

\* After a frame that moved the vehicle, a stalled frame with the keys up
\* and the stick resting exactly on the dead zone.
C20_Witness ==
  /\ last = "animate"
  /\ frames = 2
  /\ lastDelta = 20000
  /\ ~keys.w /\ ~keys.a /\ ~keys.s /\ ~keys.d
  /\ gamepadState.axes[1] = deadZone
  /\ gamepadState.axes[2] = deadZone
  /\ car.position.z # 0

\* Sessions of gamepad connect, disconnect and poll steps with devices of
\* every axis count, the clock held still.
NextAxes ==
  \/ \E index \in PadIndices, n \in ButtonCounts :
       handleGamepadConnected(index, n)
  \/ \E index \in PadIndices : handleGamepadDisconnected(index)
  \/ /\ frames < MaxFrames
     /\ \E dt \in FrozenClock,
           gp \in (IF gamepadIndex = NullIndex THEN {NotPolled}
                                               ELSE AxesPolled) :
          animate(dt, gp)

SpecAxes == Init /\ [][NextAxes]_vars

\* C18: each of the four tracked axis values is always 0 or at least the
\* dead zone in absolute value; a poll of a present device stores each of the
\* first min(device axis count, 4) readings unchanged unless it is below the
\* dead zone (then 0), and leaves the other tracked axes as they were.
C18_AxesZeroOrBeyondDeadZone ==
  /\ [](/\ Len(gamepadState.axes) = 4
        /\ \A i \in 1..4 :
             gamepadState.axes[i] = 0 \/ Abs(gamepadState.axes[i]) >= 150)
  /\ [][(frames' # frames /\ gamepadIndex # NullIndex /\ polled'.present) =>
          \A i \in 1..4 :
            IF i <= Len(polled'.axes)
              THEN gamepadState'.axes[i] =
                     (IF Abs(polled'.axes[i]) < 150 THEN 0 ELSE polled'.axes[i])
              ELSE gamepadState'.axes[i] = gamepadState.axes[i]]_vars

\* A one-axis device polled after a four-axis one: the first axis was
\* snapped to 0, the other three keep the earlier readings.
C18_Witness ==
  /\ last = "animate"
  /\ polled.present
  /\ polled.axes = <<100>>
  /\ gamepadState.axes = <<0, 150, -500, 700>>

(* ---------------- animate, statement by statement ---------------- *)

\* loop.pc is the position in animate(): "enter" on entry, then the
\* statement that has just completed; "idle" once it has returned.
\* loop.pending counts the callbacks handed to requestAnimationFrame that
\* the browser has not run yet.
LoopKeyNames == {"w"}
LoopDeltaTimes == {0, 1000}
LoopPolled == {[present |-> FALSE, axes |-> <<>>],
               [present |-> TRUE, axes |-> <<500, 500>>]}

\* animate() whose first statement asks for no further frame.
requestAnimationFrameSkipped ==
  /\ loop.pc = "enter"
  /\ loop' = [loop EXCEPT !.pc = "scheduled"]
  /\ UNCHANGED <<keys, gamepadIndex, gamepadState, car, camera, forwardInput,
                 turnInput, frames, padEvent, polled, last, fieldVars,
                 lastDelta, keyLog>>

\* requestAnimationFrame(animate)
requestAnimationFrame ==
  /\ loop.pc = "enter"
  /\ loop' = [pc |-> "scheduled", pending |-> loop.pending + 1]
  /\ UNCHANGED <<keys, gamepadIndex, gamepadState, car, camera, forwardInput,
                 turnInput, frames, padEvent, polled, last, fieldVars,
                 lastDelta, keyLog>>

\* const deltaTime = clock.getDelta()
getDelta(dt) ==
  /\ loop.pc = "scheduled"
  /\ loop' = [loop EXCEPT !.pc = "timed"]
  /\ lastDelta' = dt
  /\ UNCHANGED <<keys, gamepadIndex, gamepadState, car, camera, forwardInput,
                 turnInput, frames, padEvent, polled, last, fieldVars, keyLog>>

\* updateGamepadInput()
updateGamepadInput(gp) ==
  LET g == UpdateGamepadInput(gamepadIndex, gamepadState, gp) IN
  /\ loop.pc = "timed"
  /\ loop' = [loop EXCEPT !.pc = "polled"]
  /\ gamepadIndex' = g.index
  /\ gamepadState' = g.state
  /\ padEvent' = IF gamepadIndex # NullIndex /\ ~gp.present
                   THEN "lost" ELSE padEvent
  /\ polled' = gp
  /\ UNCHANGED <<keys, car, camera, forwardInput, turnInput, frames, last,
                 fieldVars, lastDelta, keyLog>>

\* updateCar(deltaTime)
updateCar ==
  LET fwd == ResolveForward(keys, gamepadState.axes)
      turn == ResolveTurn(keys, gamepadState.axes)
  IN /\ loop.pc = "polled"
     /\ loop' = [loop EXCEPT !.pc = "moved"]
     /\ forwardInput' = fwd
     /\ turnInput' = turn
     /\ car' = UpdateCar(car, fwd, turn, lastDelta)
     /\ UNCHANGED <<keys, gamepadIndex, gamepadState, camera, frames,
                    padEvent, polled, last, fieldVars, lastDelta, keyLog>>

\* updateCamera()
updateCamera ==
  /\ loop.pc = "moved"
  /\ loop' = [loop EXCEPT !.pc = "aimed"]
  /\ camera' = UpdateCamera(camera, car)
  /\ UNCHANGED <<keys, gamepadIndex, gamepadState, car, forwardInput,
                 turnInput, frames, padEvent, polled, last, fieldVars,
                 lastDelta, keyLog>>

\* renderer.render(scene, camera), after which animate() returns.
render ==
  /\ loop.pc = "aimed"
  /\ loop' = [loop EXCEPT !.pc = "idle"]
  /\ frames' = frames + 1
  /\ last' = "animate"
  /\ UNCHANGED <<keys, gamepadIndex, gamepadState, car, camera, forwardInput,
                 turnInput, padEvent, polled, fieldVars, lastDelta, keyLog>>

\* The browser runs a pending callback: animate() is entered again.
frameCallback ==
  /\ loop.pc = "idle"
  /\ loop.pending > 0
  /\ frames < MaxDriveFrames
  /\ loop' = [pc |-> "enter", pending |-> loop.pending - 1]
  /\ UNCHANGED <<keys, gamepadIndex, gamepadState, car, camera, forwardInput,
                 turnInput, frames, padEvent, polled, last, fieldVars,
                 lastDelta, keyLog>>

\* Event handlers run only between frames: the page has one thread.
NextLoop ==
  \/ requestAnimationFrame
  \/ \E dt \in LoopDeltaTimes : getDelta(dt)
  \/ \E gp \in (IF gamepadIndex = NullIndex THEN {NotPolled}
                                            ELSE LoopPolled) :
       updateGamepadInput(gp)
  \/ updateCar
  \/ updateCamera
  \/ render
  \/ frameCallback
  \/ /\ loop.pc = "idle"
     /\ \/ \E key \in LoopKeyNames : handleKeyDown(key)
        \/ \E key \in LoopKeyNames : handleKeyUp(key)
        \/ \E index \in DrivePadIndices, n \in ButtonCounts :
             handleGamepadConnected(index, n)
        \/ \E index \in DrivePadIndices : handleGamepadDisconnected(index)
        \/ onWindowResize

SpecLoop == Init /\ [][NextLoop]_vars

\* C16 as stated: the next iteration is scheduled only after the scene has
\* been drawn, so while an iteration is still running none is pending, and
\* once it has returned exactly one is.
C16_ScheduledAfterDraw ==
  loop.pending = (IF loop.pc = "idle" THEN 1 ELSE 0)

\* The order of the statements of animate(), as pairs of positions.
C16_Order ==
  {<<"enter", "scheduled">>, <<"scheduled", "timed">>, <<"timed", "polled">>,
   <<"polled", "moved">>, <<"moved", "aimed">>, <<"aimed", "idle">>,
   <<"idle", "enter">>}

\* C16 amended: every iteration first schedules the next one, then measures
\* the elapsed time, refreshes the gamepad readings, runs the kinematics,
\* runs the camera and draws; exactly one next iteration is scheduled per
\* iteration, so one is pending whenever an iteration has returned.  Each
\* effect happens at its place: the clock is read right after scheduling,
\* the vehicle moves right after the gamepad refresh, the camera right after
\* the vehicle, and the frame is drawn right after the camera.
C16_ScheduleFirstThenSteps ==
  /\ [](loop.pending = (IF loop.pc = "enter" THEN 0 ELSE 1))
  /\ [][/\ (loop'.pc # loop.pc => <<loop.pc, loop'.pc>> \in C16_Order)
        /\ (loop'.pending > loop.pending =>
              loop.pc = "enter" /\ loop'.pending = loop.pending + 1)
        /\ (lastDelta' # lastDelta => loop.pc = "scheduled")
        /\ (polled' # polled => loop.pc = "timed")
        /\ (car' # car => loop.pc = "polled")
        /\ (camera'.position # camera.position => loop.pc = "moved")
        /\ (frames' # frames => loop.pc = "aimed")]_vars

\* The second iteration has scheduled the third and moved the vehicle, and
\* has not yet run the camera or drawn.
C16_Witness ==
  /\ loop = [pc |-> "moved", pending |-> 1]
  /\ frames = 1
  /\ car.position.z # 0

====
